---- MODULE Spec2Model ----
(***************************************************************************)
(* Model of Tools/autotest/logger_metadata/validate.py: the cross-         *)
(* reference validator (validate_logger_documentation) and the record      *)
(* normalizer / merge of all_log_format_ids.                               *)
(*                                                                         *)
(* Strings whose characters matter (label lists) are sequences of          *)
(* one-character strings; message names are TLA+ strings.                  *)
(***************************************************************************)
EXTENDS Integers, Sequences, FiniteSets, TLC

\* ------------------------------------------------------------------ bounds
\* longest label list of a code record / documentation record
MaxLabels == 2
\* number of struct-table raw entries handed to the normalizer
MaxInfos == 2
\* number of call-site statements handed to the normalizer
MaxStmts == 2

\* ---------------------------------------------------------------- universe
\* message names of the model; NameOrder is their order under sorted()
Names == {"ATT", "TECS"}
NameOrder == <<"ATT", "TECS">>
\* field-name tokens
LabelTokens == {<<"x">>, <<"y">>}
\* vehicles given on the command line
InputVehicles == {"Copter", "Plane", "Helicopter"}

VARIABLES
    pc,             \* position of validate_logger_documentation
    vehicle,        \* its argument
    whitelist,      \* get_whitelist(vehicle), line 405
    thing,          \* the documentation element the loader is at, line 408
    docco_ids,      \* name -> documented labels
    code_ids,       \* name -> [name, labels], the result of all_log_format_ids
    undocumented, overdocumented, missing,
    ci, di,         \* cursors of the loops of lines 430 and 468
    out,            \* what was printed, in order
    retLine,        \* line of the return statement taken (0: none)
    ipc,            \* position of all_log_format_ids from line 223 on
    message_infos,  \* struct-table raw entries (after macro substitution)
    log_write_statements,   \* call-site raw entries (after substitution)
    k,              \* cursor of the loops of lines 223, 285, 299
    ids,            \* name -> record, lines 83, 232, 303
    results,        \* (name, labels) pairs, line 283
    raiseLine,      \* line of the raise statement taken (0: none)
    spc,            \* position of the scanning part of all_log_format_ids
    files,          \* the files being read, each a sequence of lines
    fi, li,         \* cursors: the file, and the line in it
    state, linestate,       \* lines 88-89, 156-157, 248
    partial_line,   \* lines 129, 200
    log_write_statement,    \* line 258
    defines,        \* name -> value in insertion order, lines 38 and 81
    seen_entries    \* the raw entries after the substitution of lines 224-225

vvars == <<pc, vehicle, whitelist, thing, docco_ids, code_ids, undocumented,
           overdocumented, missing, ci, di, out, retLine>>
ivars == <<ipc, message_infos, log_write_statements, k, ids, results, raiseLine>>
svars == <<spc, files, fi, li, state, linestate, partial_line,
           log_write_statement, defines, seen_entries>>
vars == <<pc, vehicle, whitelist, thing, docco_ids, code_ids, undocumented,
          overdocumented, missing, ci, di, out, retLine,
          ipc, message_infos, log_write_statements, k, ids, results, raiseLine,
          spc, files, fi, li, state, linestate, partial_line,
          log_write_statement, defines, seen_entries>>

\* ----------------------------------------------------------------- helpers
Range(s) == {s[i] : i \in 1..Len(s)}

EmptyMap == [n \in {} |-> <<>>]

\* d[key] = value on a Python dict
Put(d, key, value) ==
    [n \in (DOMAIN d) \cup {key} |-> IF n = key THEN value ELSE d[n]]

\* sorted(S) for a set of message names
Sorted(S) == SelectSeq(NameOrder, LAMBDA n : n \in S)

SeqsUpTo(S, n) == UNION {[1..m -> S] : m \in 0..n}

\* str.split(","): the text between the commas, empty pieces included
RECURSIVE Split(_)
Split(s) ==
    IF \A i \in 1..Len(s) : s[i] # ","
    THEN <<s>>
    ELSE LET c == CHOOSE i \in 1..Len(s) :
                      s[i] = "," /\ \A j \in 1..(i - 1) : s[j] # ","
         IN  <<SubSeq(s, 1, c - 1)>> \o Split(SubSeq(s, c + 1, Len(s)))

\* ",".join(tokens)
RECURSIVE Join(_)
Join(toks) ==
    IF Len(toks) = 0 THEN <<>>
    ELSE IF Len(toks) = 1 THEN toks[1]
    ELSE toks[1] \o <<",">> \o Join(Tail(toks))

\* label lists of 1..MaxLabels tokens, and the label strings that spell them
LabelLists == SeqsUpTo(LabelTokens, MaxLabels) \ {<<>>}
LabelStrings == {Join(l) : l \in LabelLists}

\* ------------------------------------------------------- vehicle, whitelist
VehicleDir(v) ==
    CASE v = "Copter" -> "ArduCopter"
      [] v = "Plane" -> "ArduPlane"
      [] v = "Rover" -> "Rover"
      [] v = "Sub" -> "ArduSub"
      [] v = "Tracker" -> "AntennaTracker"
      [] v = "Blimp" -> "Blimp"
      [] OTHER -> v

\* the vehicles parse.LoggerDocco knows (docgen.vehicle_map)
DocgenVehicles == {"Rover", "Sub", "Copter", "Plane", "Tracker", "Blimp"}

get_whitelist(v) ==
    LET vinfo_key == VehicleDir(v) IN
    (IF vinfo_key # "ArduPlane" /\ vinfo_key # "ArduCopter" /\ vinfo_key # "Helicopter"
        THEN {"ATUN"} ELSE {})
    \cup
    (IF vinfo_key # "ArduPlane"
        THEN {"TECS", "TEC2", "TEC3", "TEC4", "SOAR", "SORC", "QBRK", "FWDT", "VAR"}
        ELSE {})
    \cup
    (IF vinfo_key # "ArduCopter" /\ vinfo_key # "Helicopter"
        THEN {"ARHS", "AROT", "ARSC", "ATDH", "ATNH", "ATSH", "GMB1", "GMB2", "SURF"}
        ELSE {})

\* ------------------------------------------------------------ printed lines
Line(knd, nm, lb, nms) == [kind |-> knd, name |-> nm, label |-> lb, names |-> nms]

NoThing == [name |-> "", fields |-> <<>>]

\* ------------------------------------------- validate_logger_documentation
Return(line) == pc' = "returned" /\ retLine' = line

\* lines 362-405: generate the documentation, check the file, read the tree,
\* compute the whitelist
Generate ==
    /\ pc = "start"
    /\ IF vehicle \notin DocgenVehicles
       THEN /\ Return(381)
            /\ out' = Append(out, Line("invalid_vehicle", vehicle, <<>>, <<>>))
            /\ UNCHANGED whitelist
       ELSE \E xml \in {"absent", "short", "ok"} :
              CASE xml = "absent" ->
                     /\ Return(389)
                     /\ out' = Append(out, Line("no_xml", "", <<>>, <<>>))
                     /\ UNCHANGED whitelist
                [] xml = "short" ->
                     /\ Return(395)
                     /\ out' = Append(out, Line("short_xml", "", <<>>, <<>>))
                     /\ UNCHANGED whitelist
                [] OTHER ->
                     /\ pc' = "load"
                     /\ whitelist' = get_whitelist(vehicle)
                     /\ UNCHANGED <<out, retLine>>
    /\ UNCHANGED <<vehicle, thing, docco_ids, code_ids, undocumented,
                   overdocumented, missing, ci, di>>
    /\ UNCHANGED ivars
    /\ UNCHANGED svars

\* a loader that lets every message with no field elements through
NoFieldsAccepted_Always(name) == TRUE

\* line 415: a message with no field elements is let through
NoFieldsAccepted(name) == name \in whitelist

\* lines 408-422: one element of tree.logformat
LoadThing ==
    /\ pc = "load"
    /\ \E name \in Names, fields \in SeqsUpTo(LabelTokens, MaxLabels) :
         /\ thing' = [name |-> name, fields |-> fields]
         /\ IF fields = <<>>
            THEN /\ docco_ids' = Put(docco_ids, name, <<>>)
                 /\ IF NoFieldsAccepted(name)
                    THEN UNCHANGED <<pc, out, retLine>>
                    ELSE /\ out' = Append(out, Line("no_doc_fields", name, <<>>, <<>>))
                         /\ Return(418)
            ELSE /\ docco_ids' = Put(docco_ids, name, fields)
                 /\ UNCHANGED <<pc, out, retLine>>
    /\ UNCHANGED <<vehicle, whitelist, code_ids, undocumented, overdocumented,
                   missing, ci, di>>
    /\ UNCHANGED ivars
    /\ UNCHANGED svars

\* line 408 on a tree without logformat elements: lxml raises AttributeError
LoadEmptyTree ==
    /\ pc = "load"
    /\ docco_ids = EmptyMap
    /\ pc' = "raised"
    /\ UNCHANGED <<vehicle, whitelist, thing, docco_ids, code_ids, undocumented,
                   overdocumented, missing, ci, di, out, retLine>>
    /\ UNCHANGED ivars
    /\ UNCHANGED svars

\* what all_log_format_ids can return (line 311): a non-empty mapping of
\* names to records
IdsReturns ==
    UNION {[S -> LabelStrings] : S \in (SUBSET Names) \ {{}}}

IdsRecord(name, labels) == [name |-> name, labels |-> labels]

\* lines 424-428: end of the tree; extract the code records
Extract ==
    /\ pc = "load"
    /\ docco_ids # EmptyMap
    /\ thing' = NoThing
    /\ out' = Append(out, Line("parsing_code", "", <<>>, <<>>))
    /\ \/ \E r \in IdsReturns :
            /\ code_ids' = [n \in DOMAIN r |-> IdsRecord(n, r[n])]
            /\ pc' = "codeloop"
       \/ /\ pc' = "raised"
          /\ UNCHANGED code_ids
    /\ undocumented' = {}
    /\ overdocumented' = {}
    /\ UNCHANGED <<vehicle, whitelist, docco_ids, missing, ci, di, retLine>>
    /\ UNCHANGED ivars
    /\ UNCHANGED svars

\* line 430: the code-side names in sorted order
CodeNames == Sorted(DOMAIN code_ids)

\* a validator that forgets the whitelist at line 432
CountsAsUndocumented_NoWhitelist(name) == TRUE

\* line 432: a name absent from the documentation is a finding
CountsAsUndocumented(name) == name \notin whitelist

\* a validator that never flags documentation of a whitelisted message
TentativelyOverdocumented_Never(name) == FALSE

\* line 436: a documented name that should have no documentation
TentativelyOverdocumented(name) == name \in whitelist

\* a validator that takes every label after the first for a repeated one
DuplicateLabel_AnySeen(label, seen) == seen # {}

\* line 441
DuplicateLabel(label, seen) == label \in seen

\* line 446 (negated): the label is among the documented fields
LabelDocumented(name, label) == label \in Range(docco_ids[name])

\* a validator that downgrades every label mismatch to a warning
MismatchTolerated_Always(name) == TRUE

\* a validator that downgrades no label mismatch
MismatchTolerated_Never(name) == FALSE

\* line 448: a label mismatch is only a warning
MismatchTolerated(name) == name \in whitelist

\* lines 440-453: the labels of one code record, from label i on.
\* ret is the line of the return taken, 0 when the loop ends.
RECURSIVE LabelLoop(_, _, _, _, _, _)
LabelLoop(name, labels, i, seen, over, o) ==
    IF i > Len(labels)
    THEN [ret |-> 0, over |-> over, out |-> o]
    ELSE LET label == labels[i] IN
         IF DuplicateLabel(label, seen)
         THEN [ret |-> 443, over |-> over,
               out |-> Append(o, Line("duplicate_label", name, label, <<>>))]
         ELSE IF ~LabelDocumented(name, label)
              THEN IF MismatchTolerated(name)
                   THEN LabelLoop(name, labels, i + 1, seen \cup {label},
                                  over \ {name},
                                  Append(o, Line("warning_not_documented", name, label, <<>>)))
                   ELSE [ret |-> 453, over |-> over,
                         out |-> Append(o, Line("error_not_documented", name, label, <<>>))]
              ELSE LabelLoop(name, labels, i + 1, seen \cup {label}, over, o)

\* lines 430-453: one code-side name
CodeName ==
    /\ pc = "codeloop"
    /\ ci <= Len(CodeNames)
    /\ LET name == CodeNames[ci] IN
       IF name \notin DOMAIN docco_ids
       THEN /\ undocumented' = IF CountsAsUndocumented(name)
                               THEN undocumented \cup {name}
                               ELSE undocumented
            /\ ci' = ci + 1
            /\ UNCHANGED <<pc, overdocumented, out, retLine>>
       ELSE LET over0 == IF TentativelyOverdocumented(name)
                         THEN overdocumented \cup {name}
                         ELSE overdocumented
                r == LabelLoop(name, Split(code_ids[name].labels), 1, {}, over0, out)
            IN  /\ overdocumented' = r.over
                /\ out' = r.out
                /\ IF r.ret # 0
                   THEN Return(r.ret) /\ UNCHANGED ci
                   ELSE ci' = ci + 1 /\ UNCHANGED <<pc, retLine>>
                /\ UNCHANGED undocumented
    /\ UNCHANGED <<vehicle, whitelist, thing, docco_ids, code_ids, missing, di>>
    /\ UNCHANGED ivars
    /\ UNCHANGED svars

\* a validator that goes on after reporting the undocumented names
CheckUndocumented_NoReturn ==
    /\ pc = "codeloop"
    /\ ci > Len(CodeNames)
    /\ pc' = "check_over"
    /\ out' = IF Cardinality(undocumented) # 0
              THEN Append(out, Line("undocumented", "", <<>>, Sorted(undocumented)))
              ELSE out
    /\ UNCHANGED <<vehicle, whitelist, thing, docco_ids, code_ids, undocumented,
                   overdocumented, missing, ci, di, retLine>>
    /\ UNCHANGED ivars
    /\ UNCHANGED svars

\* lines 455-459, after the last code-side name
CheckUndocumented ==
    /\ pc = "codeloop"
    /\ ci > Len(CodeNames)
    /\ IF Cardinality(undocumented) # 0
       THEN /\ out' = Append(out, Line("undocumented", "", <<>>, Sorted(undocumented)))
            /\ Return(459)
       ELSE /\ pc' = "check_over"
            /\ UNCHANGED <<out, retLine>>
    /\ UNCHANGED <<vehicle, whitelist, thing, docco_ids, code_ids, undocumented,
                   overdocumented, missing, ci, di>>
    /\ UNCHANGED ivars
    /\ UNCHANGED svars

\* lines 461-467
CheckOverdocumented ==
    /\ pc = "check_over"
    /\ IF Cardinality(overdocumented) # 0
       THEN /\ out' = Append(out, Line("overdocumented", "", <<>>, Sorted(overdocumented)))
            /\ Return(465)
            /\ UNCHANGED missing
       ELSE /\ pc' = "docloop"
            /\ missing' = <<>>
            /\ UNCHANGED <<out, retLine>>
    /\ UNCHANGED <<vehicle, whitelist, thing, docco_ids, code_ids, undocumented,
                   overdocumented, ci, di>>
    /\ UNCHANGED ivars
    /\ UNCHANGED svars

\* line 468: the documented names in sorted order
DocNames == Sorted(DOMAIN docco_ids)

\* a validator that never records a documented name as missing
CountsAsMissing_Never(name) == FALSE

\* line 469: a documented name the code does not have
CountsAsMissing(name) == name \notin DOMAIN code_ids /\ name \notin whitelist

\* a validator that skips the check of line 477
DocLabelInCode_Skip(name, label) == TRUE

\* line 477 (negated): the documented label is a label of the code record
DocLabelInCode(name, label) == label \in Range(Split(code_ids[name].labels))

\* lines 468-479: one documented name
DocName ==
    /\ pc = "docloop"
    /\ di <= Len(DocNames)
    /\ LET name == DocNames[di] IN
       IF CountsAsMissing(name)
       THEN /\ missing' = Append(missing, name)
            /\ di' = di + 1
            /\ UNCHANGED <<pc, out, retLine>>
       ELSE IF name \notin DOMAIN code_ids
       THEN /\ di' = di + 1
            /\ UNCHANGED <<pc, out, retLine, missing>>
       ELSE LET labels == docco_ids[name]
                bad == {i \in 1..Len(labels) : ~DocLabelInCode(name, labels[i])}
            IN  IF bad # {}
                THEN LET first == CHOOSE i \in bad : \A j \in bad : i <= j IN
                     /\ out' = Append(out, Line("error_not_in_code", name, labels[first], <<>>))
                     /\ Return(479)
                     /\ UNCHANGED <<di, missing>>
                ELSE /\ di' = di + 1
                     /\ UNCHANGED <<pc, out, retLine, missing>>
    /\ UNCHANGED <<vehicle, whitelist, thing, docco_ids, code_ids, undocumented,
                   overdocumented, ci>>
    /\ UNCHANGED ivars
    /\ UNCHANGED svars

\* lines 481-486, after the last documented name
CheckMissing ==
    /\ pc = "docloop"
    /\ di > Len(DocNames)
    /\ IF Len(missing) > 0
       THEN /\ out' = Append(out, Line("missing", "", <<>>, missing))
            /\ Return(483)
       ELSE /\ out' = Append(out, Line("success", vehicle, <<>>, <<>>))
            /\ Return(486)
    /\ UNCHANGED <<vehicle, whitelist, thing, docco_ids, code_ids, undocumented,
                   overdocumented, missing, ci, di>>
    /\ UNCHANGED ivars
    /\ UNCHANGED svars

InitV ==
    /\ pc = "start"
    /\ vehicle \in InputVehicles
    /\ whitelist = {}
    /\ thing = NoThing
    /\ docco_ids = EmptyMap
    /\ code_ids = EmptyMap
    /\ undocumented = {}
    /\ overdocumented = {}
    /\ missing = <<>>
    /\ ci = 1
    /\ di = 1
    /\ out = <<>>
    /\ retLine = 0
    /\ ipc = "idle"
    /\ message_infos = <<>>
    /\ log_write_statements = <<>>
    /\ k = 1
    /\ ids = EmptyMap
    /\ results = <<>>
    /\ raiseLine = 0
    /\ spc = "idle"
    /\ files = <<>>
    /\ fi = 1
    /\ li = 1
    /\ state = 0
    /\ linestate = 0
    /\ partial_line = <<>>
    /\ log_write_statement = <<>>
    /\ defines = <<>>
    /\ seen_entries = <<>>

NextV ==
    \/ Generate
    \/ LoadThing
    \/ LoadEmptyTree
    \/ Extract
    \/ CodeName
    \/ CheckUndocumented
    \/ CheckOverdocumented
    \/ DocName
    \/ CheckMissing

Spec == InitV /\ [][NextV]_vars

\* ------------------------------------- all_log_format_ids, lines 223 to 311
\* A raw entry is its text after the macro substitution of lines 224-225 and
\* 286-287, kept as what the regular expressions of lines 226, 289 and 292
\* see in it: the shape of the text and, for a text of a matching shape, the
\* quoted name and label list it holds.
IdsLabels == {<<"x">>, <<"x", ",", "y">>}

\* struct-table rows: "row" is LOG_X, sizeof(..), "name", "fmt", "labels",
\* "units", "mults" with or without the trailing flag; "other" is any other
\* text
StructEntries ==
    {[shape |-> "row", name |-> n, labels |-> l] : n \in Names, l \in IdsLabels}
    \cup {[shape |-> "other", name |-> "", labels |-> <<>>]}

\* call statements: " logger.Write(" and " AP::logger().Write(" with a quoted
\* name and a quoted label list first; "other" is any other text
CallEntries ==
    {[shape |-> sh, name |-> n, labels |-> l] :
        sh \in {"logger", "ap_logger"}, n \in Names, l \in IdsLabels}
    \cup {[shape |-> "other", name |-> "", labels |-> <<>>]}

\* line 226: re.match of the struct-table grammar
StructRowMatch(e) == e.shape = "row"

\* a parser that takes every statement for a logging call
CallMatch_Any(e) == TRUE

\* lines 289-293: re.match of the first call shape, then of the second
CallMatch(e) == e.shape = "logger" \/ e.shape = "ap_logger"

\* a merge that never sees a struct-table name twice
StructNameSeen_Never(name) == FALSE

\* line 230
StructNameSeen(name) == name \in DOMAIN ids

\* a merge that lets a call-site record replace the record of its name
CallNameSeen_Never(name) == FALSE

\* line 301
CallNameSeen(name) == name \in DOMAIN ids

Raise(line) == ipc' = "raised" /\ raiseLine' = line

\* lines 223-238: one struct-table raw entry
NormalizeStruct ==
    /\ ipc = "struct"
    /\ k <= Len(message_infos)
    /\ LET e == message_infos[k] IN
       IF ~StructRowMatch(e)
       THEN /\ k' = k + 1
            /\ UNCHANGED <<ipc, ids, raiseLine>>
       ELSE IF StructNameSeen(e.name)
       THEN /\ Raise(231)
            /\ UNCHANGED <<k, ids>>
       ELSE /\ ids' = Put(ids, e.name, IdsRecord(e.name, e.labels))
            /\ k' = k + 1
            /\ UNCHANGED <<ipc, raiseLine>>
    /\ UNCHANGED <<message_infos, log_write_statements, results>>
    /\ UNCHANGED vvars
    /\ UNCHANGED svars

\* lines 240-283: the struct-table entries are done, the call statements
\* have been collected
StructDone ==
    /\ ipc = "struct"
    /\ k > Len(message_infos)
    /\ ipc' = "parse"
    /\ k' = 1
    /\ results' = <<>>
    /\ UNCHANGED <<message_infos, log_write_statements, ids, raiseLine>>
    /\ UNCHANGED vvars
    /\ UNCHANGED svars

\* lines 285-297: one call statement
ParseStatement ==
    /\ ipc = "parse"
    /\ k <= Len(log_write_statements)
    /\ LET e == log_write_statements[k] IN
       IF ~CallMatch(e)
       THEN /\ Raise(295)
            /\ UNCHANGED <<k, results>>
       ELSE /\ results' = Append(results, <<e.name, e.labels>>)
            /\ k' = k + 1
            /\ UNCHANGED <<ipc, raiseLine>>
    /\ UNCHANGED <<message_infos, log_write_statements, ids>>
    /\ UNCHANGED vvars
    /\ UNCHANGED svars

\* line 299: every call statement is parsed
ParseDone ==
    /\ ipc = "parse"
    /\ k > Len(log_write_statements)
    /\ ipc' = "merge"
    /\ k' = 1
    /\ UNCHANGED <<message_infos, log_write_statements, ids, results, raiseLine>>
    /\ UNCHANGED vvars
    /\ UNCHANGED svars

\* lines 299-306: one call-site result
MergeResult ==
    /\ ipc = "merge"
    /\ k <= Len(results)
    /\ LET name == results[k][1]
           labels == results[k][2]
       IN  IF CallNameSeen(name)
           THEN /\ Raise(302)
                /\ UNCHANGED <<k, ids>>
           ELSE /\ ids' = Put(ids, name, IdsRecord(name, labels))
                /\ k' = k + 1
                /\ UNCHANGED <<ipc, raiseLine>>
    /\ UNCHANGED <<message_infos, log_write_statements, results>>
    /\ UNCHANGED vvars
    /\ UNCHANGED svars

\* lines 308-311
ReturnIds ==
    /\ ipc = "merge"
    /\ k > Len(results)
    /\ IF Cardinality(DOMAIN ids) = 0
       THEN Raise(309)
       ELSE ipc' = "returned" /\ UNCHANGED raiseLine
    /\ UNCHANGED <<message_infos, log_write_statements, k, ids, results>>
    /\ UNCHANGED vvars
    /\ UNCHANGED svars

InitIds ==
    /\ pc = "idle"
    /\ vehicle = "Copter"
    /\ whitelist = {}
    /\ thing = NoThing
    /\ docco_ids = EmptyMap
    /\ code_ids = EmptyMap
    /\ undocumented = {}
    /\ overdocumented = {}
    /\ missing = <<>>
    /\ ci = 1
    /\ di = 1
    /\ out = <<>>
    /\ retLine = 0
    /\ ipc = "struct"
    /\ message_infos \in SeqsUpTo(StructEntries, MaxInfos)
    /\ log_write_statements \in SeqsUpTo(CallEntries, MaxStmts)
    /\ k = 1
    /\ ids = EmptyMap
    /\ results = <<>>
    /\ raiseLine = 0
    /\ spc = "idle"
    /\ files = <<>>
    /\ fi = 1
    /\ li = 1
    /\ state = 0
    /\ linestate = 0
    /\ partial_line = <<>>
    /\ log_write_statement = <<>>
    /\ defines = <<>>
    /\ seen_entries = <<>>

NextIds ==
    \/ NormalizeStruct
    \/ StructDone
    \/ ParseStatement
    \/ ParseDone
    \/ MergeResult
    \/ ReturnIds

SpecIds == InitIds /\ [][NextIds]_vars

\* ------------------------------------------------ source text and the re module
\* Source text is a sequence of atoms: a lexeme of the source (an identifier
\* or a piece of one, a punctuation mark, a blank, the newline that ends a
\* line).  A regular expression is a sequence of items; an item accepts the
\* atoms of a set (or of its complement), once, optionally or repeatedly
\* (greedy), and may add what it has matched to a group.
Q == "\""
BS == "\\"
NL == "\n"
Ws == {" ", NL}
WordAtoms ==
    {"LOG_", "X", "COMMON_STRUCTURES", "STRUCTURE_FROM_", "RTC_MESSAGE",
     "sizeof", "RLOG_SIZE", "s", "ATT", "TECS", "f", "x", "y", "u", "m",
     "true", "false", "logger", "Write", "Streaming", "AP",
     "A_LABELS", "B_LABELS", "B_FMT", "const", "LogStructure", "struct", "v",
     "HAL_QUADPLANE_ENABLED", "if", "1"}

Item(set, neg, lo, many, cap) ==
    [end |-> FALSE, set |-> set, neg |-> neg, lo |-> lo, many |-> many, cap |-> cap]
Lit(a) == Item({a}, FALSE, 1, FALSE, 0)
One(S) == Item(S, FALSE, 1, FALSE, 0)
Opt(S) == Item(S, FALSE, 0, FALSE, 0)
Star(S) == Item(S, FALSE, 0, TRUE, 0)
Plus(S) == Item(S, FALSE, 1, TRUE, 0)
NotStar(S) == Item(S, TRUE, 0, TRUE, 0)
NotPlus(S) == Item(S, TRUE, 1, TRUE, 0)
\* "." matches anything but a newline
AnyStar == NotStar({NL})
\* "$": the end of the text, or just before a newline that ends it
AtEnd == [end |-> TRUE, set |-> {}, neg |-> FALSE, lo |-> 0, many |-> FALSE, cap |-> 0]
Group(g, item) == [item EXCEPT !.cap = g]

NoGroups == [g \in 1..5 |-> <<>>]

Accepts(item, a) == IF item.neg THEN a \notin item.set ELSE a \in item.set

\* the longest run of atoms from s[i] on that the item accepts
RunLength(item, s, i) ==
    LET most == IF item.many THEN Len(s) - i + 1
                ELSE IF i <= Len(s) THEN 1 ELSE 0
    IN  CHOOSE n \in 0..most :
           /\ n = most \/ ~Accepts(item, s[i + n])
           /\ \A m \in 0..(n - 1) : Accepts(item, s[i + m])

\* The backtracking search of the re module is followed breadth-first: a
\* thread is one way the items so far can have matched, with the position it
\* has reached, its groups, and the number of atoms each item took.
Thread(pos, groups, taken) == [pos |-> pos, groups |-> groups, taken |-> taken]

\* the threads that one more item leaves of the thread t
StepThread(item, t, s) ==
    IF item.end
    THEN IF t.pos = Len(s) + 1 \/ (t.pos = Len(s) /\ s[t.pos] = NL)
         THEN {Thread(t.pos, t.groups, Append(t.taken, 0))}
         ELSE {}
    ELSE {Thread(t.pos + n,
                 IF item.cap = 0 THEN t.groups
                 ELSE [t.groups EXCEPT ![item.cap] = @ \o SubSeq(s, t.pos, t.pos + n - 1)],
                 Append(t.taken, n)) :
             n \in item.lo..RunLength(item, s, t.pos)}

\* the threads that the items a..b of the expression leave of the threads T
RECURSIVE RunItems(_, _, _, _, _)
RunItems(re, a, b, T, s) ==
    IF T = {} THEN T
    ELSE IF a = b THEN UNION {StepThread(re[a], t, s) : t \in T}
    ELSE RunItems(re, (a + b) \div 2 + 1, b, RunItems(re, a, (a + b) \div 2, T, s), s)

\* a repetition is greedy: the search tries its longest run first, so of two
\* threads it finds first the one that took more at the first item where
\* they differ
FoundBefore(t, o) ==
    \E j \in 1..Len(t.taken) :
        /\ t.taken[j] > o.taken[j]
        /\ \A h \in 1..(j - 1) : t.taken[h] = o.taken[h]

\* re.match from position i: <<>> when there is no match, else
\* <<[end, groups]>> for the match the search finds first
ReFrom(re, s, i) ==
    LET T == RunItems(re, 1, Len(re), {Thread(i, NoGroups, <<>>)}, s) IN
    IF T = {} THEN <<>>
    ELSE LET t == CHOOSE t \in T : \A o \in T : o = t \/ FoundBefore(t, o)
         IN  <<[end |-> t.pos, groups |-> t.groups]>>

\* re.match(re, s)
ReMatch(re, s) == ReFrom(re, s, 1)

\* re.sub(re, repl, s): every match, left to right, replaced by repl (no
\* expression here matches the empty text)
RECURSIVE ReSubFrom(_, _, _, _)
ReSubFrom(re, repl, s, i) ==
    LET starts == {p \in i..Len(s) :
                      /\ re[1].lo = 0 \/ Accepts(re[1], s[p])
                      /\ ReFrom(re, s, p) # <<>>}
    IN
    IF starts = {} THEN SubSeq(s, i, Len(s))
    ELSE LET p == CHOOSE p \in starts : \A o \in starts : p <= o IN
         SubSeq(s, i, p - 1) \o repl \o ReSubFrom(re, repl, s, ReFrom(re, s, p)[1].end)
ReSub(re, repl, s) == ReSubFrom(re, repl, s, 1)

\* the expression that matches the text t itself
Literal(t) == [j \in 1..Len(t) |-> Lit(t[j])]

\* "t in line"
Contains(line, t) ==
    \E i \in 1..(Len(line) - Len(t) + 1) : SubSeq(line, i, i + Len(t) - 1) = t

\* str.rstrip()
RStrip(t) ==
    LET n == CHOOSE n \in 0..Len(t) :
                /\ \A i \in (n + 1)..Len(t) : t[i] \in Ws
                /\ n = 0 \/ t[n] \notin Ws
    IN  SubSeq(t, 1, n)

\* re.sub("//.*", "", line)
StripComment(line) == ReSub(<<Lit("//"), AnyStar>>, <<>>, line)
\* re.match(r"\s*$", line)
IsBlank(line) == ReMatch(<<Star(Ws), AtEnd>>, line) # <<>>
\* re.sub(r'"\s*"', '', line): C-style concatenation of adjacent literals
JoinLiterals(line) == ReSub(<<Lit(Q), Star(Ws), Lit(Q)>>, <<>>, line)

\* ------------------------------------------------------ find_format_defines
\* the most lines a scanned text holds
MaxDefineLines == 3

\* names that end in _LABELS, _FMT, _UNITS or _MULTS after at least one
\* word character
MacroAtoms == {"A_LABELS", "B_LABELS", "B_FMT"}

\* r'#define (\w+_(?:LABELS|FMT|UNITS|MULTS))\s+(".*")', line 42
DefineRe ==
    <<Lit("#define"), Lit(" "), Group(1, Star(WordAtoms)), Group(1, One(MacroAtoms)),
      Plus(Ws), Group(2, Lit(Q)), Group(2, AnyStar), Group(2, Lit(Q))>>

\* the lines the define scanner is run on
DefineLines ==
    {<<"#define", " ", "A_LABELS", " ", Q, "x", Q, NL>>,
     <<"#define", " ", "A_LABELS", " ", Q, "y", Q, NL>>,
     <<"#define", " ", "B_FMT", " ", " ", Q, "f", Q, " ", "//", " ", "f", NL>>,
     <<"#define", " ", "X", "A_LABELS", " ", Q, "x", Q, NL>>,
     <<" ", "#define", " ", "B_LABELS", " ", Q, "y", Q, NL>>,
     <<"#define", " ", "B_LABELS", " ", "y", NL>>,
     <<"#define", " ", "LOG_", "X", " ", Q, "x", Q, NL>>}

\* "a in ret", line 46
DefineSeen_Never(defs, a) == FALSE

DefineSeen(defs, a) == \E i \in 1..Len(defs) : defs[i].name = a

\* "ret[a] = b", line 48: a dict keeps the position of a key it already has
PutDefine(defs, a, b) ==
    IF \E i \in 1..Len(defs) : defs[i].name = a
    THEN [i \in 1..Len(defs) |->
             IF defs[i].name = a THEN [name |-> a, value |-> b] ELSE defs[i]]
    ELSE Append(defs, [name |-> a, value |-> b])

\* one turn of the loop of line 39
FindDefine ==
    /\ spc = "find_defines"
    /\ li <= Len(files[1])
    /\ LET m == ReMatch(DefineRe, files[1][li]) IN
       IF m = <<>>
       THEN /\ li' = li + 1
            /\ UNCHANGED <<spc, defines, raiseLine>>
       ELSE LET a == m[1].groups[1]
                b == m[1].groups[2]
            IN  IF DefineSeen(defines, a)
                THEN /\ spc' = "raised"
                     /\ raiseLine' = 47
                     /\ UNCHANGED <<li, defines>>
                ELSE /\ defines' = PutDefine(defines, a, b)
                     /\ li' = li + 1
                     /\ UNCHANGED <<spc, raiseLine>>
    /\ UNCHANGED <<files, fi, state, linestate, partial_line, log_write_statement,
                   seen_entries>>
    /\ UNCHANGED <<ipc, message_infos, log_write_statements, k, ids, results>>
    /\ UNCHANGED vvars

\* "return ret", line 49
DefinesReturn ==
    /\ spc = "find_defines"
    /\ li > Len(files[1])
    /\ spc' = "defines_returned"
    /\ UNCHANGED <<files, fi, li, state, linestate, partial_line,
                   log_write_statement, defines, seen_entries>>
    /\ UNCHANGED ivars
    /\ UNCHANGED vvars

InitDefines ==
    /\ pc = "idle"
    /\ vehicle = "Copter"
    /\ whitelist = {}
    /\ thing = NoThing
    /\ docco_ids = EmptyMap
    /\ code_ids = EmptyMap
    /\ undocumented = {}
    /\ overdocumented = {}
    /\ missing = <<>>
    /\ ci = 1
    /\ di = 1
    /\ out = <<>>
    /\ retLine = 0
    /\ ipc = "idle"
    /\ message_infos = <<>>
    /\ log_write_statements = <<>>
    /\ k = 1
    /\ ids = EmptyMap
    /\ results = <<>>
    /\ raiseLine = 0
    /\ spc = "find_defines"
    /\ \E lines \in SeqsUpTo(DefineLines, MaxDefineLines) : files = <<lines>>
    /\ fi = 1
    /\ li = 1
    /\ state = 0
    /\ linestate = 0
    /\ partial_line = <<>>
    /\ log_write_statement = <<>>
    /\ defines = <<>>
    /\ seen_entries = <<>>

NextDefines == FindDefine \/ DefinesReturn

SpecDefines == InitDefines /\ [][NextDefines]_vars

\* ------------------------------------------------- the struct-table scans
\* lines 65-68
STATE_OUTSIDE == 0
STATE_INSIDE == 1
LINESTATE_NONE == 0
LINESTATE_WITHIN == 1

\* r"\s*{(.*)},\s*", lines 119 and 192
RowRe == <<Star(Ws), Lit("{"), Group(1, AnyStar), Lit("}"), Lit(","), Star(Ws)>>
\* r"\s*{(.*)\\\s*$", line 124
DeclOpenerRe == <<Star(Ws), Lit("{"), Group(1, AnyStar), Lit(BS), Star(Ws), AtEnd>>
\* r"(.*)}[,\s\\]*$", line 135
DeclCloserRe == <<Group(1, AnyStar), Lit("}"), Star({",", BS} \cup Ws), AtEnd>>
\* r"\s*{(.*)", line 197
VehicleOpenerRe == <<Star(Ws), Lit("{"), Group(1, AnyStar)>>
\* r"(.*)},?\s*$", line 205
VehicleCloserRe == <<Group(1, AnyStar), Lit("}"), Opt({","}), Star(Ws), AtEnd>>
\* "};", line 174
TableEndRe == <<Lit("}"), Lit(";")>>

\* the condition of lines 100-102
DeclMarker(line) ==
    \/ Contains(line, <<"#define", " ", "LOG_", "COMMON_STRUCTURES">>)
    \/ ReMatch(<<Lit("#define"), Lit(" "), Lit("LOG_"), Lit("STRUCTURE_FROM_"), AnyStar>>, line) # <<>>
    \/ ReMatch(<<Lit("#define"), Lit(" "), Lit("LOG_"), Lit("RTC_MESSAGE"), AnyStar>>, line) # <<>>

\* lines 108-115
DeclAllowed(line) ==
    \/ Contains(line, <<"LOG_", "STRUCTURE_FROM_">>)
    \/ Contains(line, <<"LOG_", "RTC_MESSAGE">>)

\* the condition of lines 168-169
VehicleMarker(line) ==
    \/ Contains(line, <<"const", " ", "LogStructure">>)
    \/ Contains(line, <<"const", " ", "struct", " ", "LogStructure">>)

\* the lines skipped by lines 179-190 (those of them the texts here can hold)
VehicleSkipped(line) ==
    \/ Contains(line, <<"#if", " ", "HAL_QUADPLANE_ENABLED">>)
    \/ Contains(line, <<"#end">>)
    \/ Contains(line, <<"LOG_", "COMMON_STRUCTURES">>)

\* re.sub(r"\\$", "", line), lines 139 and 209
DropBackslash(line) == ReSub(<<Lit(BS), AtEnd>>, <<>>, line)

\* what one turn of a scanning loop leaves behind; raise is the line of the
\* raise statement it ends in (0: none), brk whether it left the loop
Turn(st, lst, pl, infos, raise, brk) ==
    [state |-> st, linestate |-> lst, partial_line |-> pl, message_infos |-> infos,
     raise |-> raise, brk |-> brk]

\* lines 95-150 for one line of a declaration file
DeclTurn(raw, st, lst, pl, infos) ==
    LET line == StripComment(raw)
        same == Turn(st, lst, pl, infos, 0, FALSE)
    IN
    IF IsBlank(line) THEN same
    ELSE IF st = STATE_OUTSIDE
    THEN IF DeclMarker(line) THEN Turn(STATE_INSIDE, lst, pl, infos, 0, FALSE) ELSE same
    ELSE IF lst = LINESTATE_NONE
    THEN IF DeclAllowed(line) THEN same
         ELSE LET row == ReMatch(RowRe, line) IN
              IF row # <<>>
              THEN Turn(st, lst, pl, Append(infos, row[1].groups[1]), 0, FALSE)
              ELSE LET m == ReMatch(DeclOpenerRe, line) IN
                   IF m = <<>>
                   THEN Turn(STATE_OUTSIDE, lst, pl, infos, 0, FALSE)
                   ELSE Turn(st, LINESTATE_WITHIN, m[1].groups[1], infos, 0, FALSE)
    ELSE LET m == ReMatch(DeclCloserRe, line) IN
         IF m = <<>>
         THEN LET stripped == RStrip(line)
                  newline == DropBackslash(stripped)
              IN  IF newline = stripped
                  THEN Turn(st, lst, pl, infos, 141, FALSE)
                  ELSE Turn(st, lst, pl \o JoinLiterals(RStrip(newline)), infos, 0, FALSE)
         ELSE Turn(st, LINESTATE_NONE, pl, Append(infos, pl \o m[1].groups[1]), 0, FALSE)

\* lines 163-218 for one line of the vehicle's Log.cpp
VehicleTurn(raw, st, lst, pl, infos) ==
    LET line == StripComment(raw)
        same == Turn(st, lst, pl, infos, 0, FALSE)
    IN
    IF IsBlank(line) THEN same
    ELSE IF st = STATE_OUTSIDE
    THEN IF VehicleMarker(line) THEN Turn(STATE_INSIDE, lst, pl, infos, 0, FALSE) ELSE same
    ELSE IF ReMatch(TableEndRe, line) # <<>>
    THEN Turn(STATE_OUTSIDE, lst, pl, infos, 0, TRUE)
    ELSE IF lst = LINESTATE_NONE
    THEN IF VehicleSkipped(line) THEN same
         ELSE LET row == ReMatch(RowRe, line) IN
              IF row # <<>>
              THEN Turn(st, lst, pl, Append(infos, row[1].groups[1]), 0, FALSE)
              ELSE LET m == ReMatch(VehicleOpenerRe, line) IN
                   IF m = <<>>
                   THEN Turn(st, lst, pl, infos, 199, FALSE)
                   ELSE Turn(st, LINESTATE_WITHIN, m[1].groups[1], infos, 0, FALSE)
    ELSE LET m == ReMatch(VehicleCloserRe, line) IN
         IF m = <<>>
         THEN Turn(st, lst, pl \o JoinLiterals(RStrip(DropBackslash(RStrip(line)))),
                   infos, 0, FALSE)
         ELSE Turn(st, LINESTATE_NONE, pl, Append(infos, pl \o m[1].groups[1]), 0, FALSE)

\* the name occurs in the text at position p
OccursAt(name, text, p) ==
    /\ p + Len(name) - 1 <= Len(text)
    /\ SubSeq(text, p, p + Len(name) - 1) = name
\* ... and is an identifier of its own there, not a part of a longer one
WholeTokenAt(name, text, p) ==
    /\ OccursAt(name, text, p)
    /\ p = 1 \/ text[p - 1] \notin WordAtoms
    /\ p + Len(name) > Len(text) \/ text[p + Len(name)] \notin WordAtoms

\* a substitution that replaces a macro name only where it is a whole token
RECURSIVE TokenSubstituteFrom(_, _, _)
TokenSubstituteFrom(defs, text, i) ==
    LET at == {p \in i..Len(text) :
                  \E d \in 1..Len(defs) : WholeTokenAt(defs[d].name, text, p)}
    IN  IF at = {} THEN SubSeq(text, i, Len(text))
        ELSE LET p == CHOOSE p \in at : \A o \in at : p <= o
                 d == CHOOSE d \in 1..Len(defs) : WholeTokenAt(defs[d].name, text, p)
             IN  SubSeq(text, i, p - 1) \o defs[d].value
                    \o TokenSubstituteFrom(defs, text, p + Len(defs[d].name))
SubstituteDefines_WholeTokens(defs, text) == TokenSubstituteFrom(defs, text, 1)

\* the loop of lines 224-225 and 286-287: for every define, in the order of
\* the mapping, re.sub(define, defines[define], text)
RECURSIVE SubstituteFrom(_, _, _)
SubstituteFrom(defs, d, text) ==
    IF d > Len(defs) THEN text
    ELSE SubstituteFrom(defs, d + 1, ReSub(Literal(defs[d].name), defs[d].value, text))
SubstituteDefines(defs, text) == SubstituteFrom(defs, 1, text)

\* the expression of line 226, up to its optional last group
StructFieldsRe ==
    <<Star(Ws), Lit("LOG_"), Plus(WordAtoms), Star(Ws), Lit(","), Star(Ws),
      One({"sizeof", "RLOG_SIZE"}), Lit("("), NotPlus({")"}), Lit(")"),
      Star(Ws), Lit(","), Star(Ws), Lit(Q), Group(1, Plus(WordAtoms)), Lit(Q),
      Star(Ws), Lit(","), Star(Ws), Lit(Q), Group(2, Plus(WordAtoms)), Lit(Q),
      Star(Ws), Lit(","), Star(Ws), Lit(Q), Group(3, Plus(WordAtoms \cup {","})), Lit(Q),
      Star(Ws), Lit(","), Star(Ws), Lit(Q), Group(4, NotStar({Q})), Lit(Q),
      Star(Ws), Lit(","), Star(Ws), Lit(Q), Group(5, NotStar({Q})), Lit(Q), Star(Ws)>>
\* its end: with "(,\s*(true|false))?" taken, and with it left out
StructGrammarFlag ==
    StructFieldsRe \o <<Lit(","), Star(Ws), One({"true", "false"}), Star(Ws), AtEnd>>
StructGrammarPlain == StructFieldsRe \o <<AtEnd>>

\* re.match of line 226
StructGrammarMatch(text) ==
    LET m == ReMatch(StructGrammarFlag, text) IN
    IF m # <<>> THEN m ELSE ReMatch(StructGrammarPlain, text)

\* lines 224-228 and 232-238 for one raw entry: <<>> when it is skipped,
\* else the record it gives
StructRecord(defs, message_info) ==
    LET m == StructGrammarMatch(SubstituteDefines(defs, message_info)) IN
    IF m = <<>> THEN <<>>
    ELSE <<[name |-> m[1].groups[1], format |-> m[1].groups[2],
            labels |-> m[1].groups[3], units |-> m[1].groups[4],
            multipliers |-> m[1].groups[5]]>>

\* lines 86-89: the (one) declaration file is opened
DeclBegin ==
    /\ spc = "defines_returned"
    /\ spc' = "decl"
    /\ li' = 1
    /\ state' = STATE_OUTSIDE
    /\ linestate' = LINESTATE_NONE
    /\ UNCHANGED <<files, fi, partial_line, log_write_statement, defines, seen_entries>>
    /\ UNCHANGED ivars
    /\ UNCHANGED vvars

\* one turn of the loop of line 92
DeclLine ==
    /\ spc = "decl"
    /\ li <= Len(files[1])
    /\ LET t == DeclTurn(files[1][li], state, linestate, partial_line, message_infos) IN
       /\ state' = t.state
       /\ linestate' = t.linestate
       /\ partial_line' = t.partial_line
       /\ message_infos' = t.message_infos
       /\ IF t.raise # 0
          THEN spc' = "raised" /\ raiseLine' = t.raise /\ li' = li
          ELSE li' = li + 1 /\ UNCHANGED <<spc, raiseLine>>
    /\ UNCHANGED <<files, fi, log_write_statement, defines, seen_entries>>
    /\ UNCHANGED <<ipc, log_write_statements, k, ids, results>>
    /\ UNCHANGED vvars

\* lines 152-153, at the end of the declaration file
DeclEndOfFile ==
    /\ spc = "decl"
    /\ li > Len(files[1])
    /\ IF linestate # LINESTATE_NONE
       THEN spc' = "raised" /\ raiseLine' = 153
       ELSE spc' = "decl_done" /\ UNCHANGED raiseLine
    /\ UNCHANGED <<files, fi, li, state, linestate, partial_line,
                   log_write_statement, defines, seen_entries>>
    /\ UNCHANGED <<ipc, message_infos, log_write_statements, k, ids, results>>
    /\ UNCHANGED vvars

\* lines 155-159: the vehicle's Log.cpp is opened
VehicleBegin ==
    /\ spc = "decl_done"
    /\ spc' = "vehicle"
    /\ fi' = 2
    /\ li' = 1
    /\ state' = STATE_OUTSIDE
    /\ linestate' = LINESTATE_NONE
    /\ UNCHANGED <<files, partial_line, log_write_statement, defines, seen_entries>>
    /\ UNCHANGED ivars
    /\ UNCHANGED vvars

\* one turn of the loop of line 160; the break of line 176 leaves the loop
VehicleLine ==
    /\ spc = "vehicle"
    /\ li <= Len(files[2])
    /\ LET t == VehicleTurn(files[2][li], state, linestate, partial_line, message_infos) IN
       /\ state' = t.state
       /\ linestate' = t.linestate
       /\ partial_line' = t.partial_line
       /\ message_infos' = t.message_infos
       /\ IF t.raise # 0
          THEN spc' = "raised" /\ raiseLine' = t.raise /\ li' = li
          ELSE IF t.brk
          THEN spc' = "vehicle_done" /\ li' = li /\ UNCHANGED raiseLine
          ELSE li' = li + 1 /\ UNCHANGED <<spc, raiseLine>>
    /\ UNCHANGED <<files, fi, log_write_statement, defines, seen_entries>>
    /\ UNCHANGED <<ipc, log_write_statements, k, ids, results>>
    /\ UNCHANGED vvars

\* the loop of line 160 is left, and nothing is raised
VehicleEnd_NoRaise ==
    /\ \/ spc = "vehicle_done"
       \/ spc = "vehicle" /\ li > Len(files[2])
    /\ spc' = "normalize"
    /\ k' = 1
    /\ UNCHANGED <<files, fi, li, state, linestate, partial_line,
                   log_write_statement, defines, seen_entries>>
    /\ UNCHANGED <<ipc, message_infos, log_write_statements, ids, results, raiseLine>>
    /\ UNCHANGED vvars

\* lines 220-221, after the loop (left by the break or at the end of the file)
VehicleEnd ==
    /\ \/ spc = "vehicle_done"
       \/ spc = "vehicle" /\ li > Len(files[2])
    /\ IF state = STATE_INSIDE
       THEN spc' = "raised" /\ raiseLine' = 221 /\ UNCHANGED k
       ELSE spc' = "normalize" /\ k' = 1 /\ UNCHANGED raiseLine
    /\ UNCHANGED <<files, fi, li, state, linestate, partial_line,
                   log_write_statement, defines, seen_entries>>
    /\ UNCHANGED <<ipc, message_infos, log_write_statements, ids, results>>
    /\ UNCHANGED vvars

\* one turn of the loop of line 223
NormalizeEntry ==
    /\ spc = "normalize"
    /\ k <= Len(message_infos)
    /\ LET r == StructRecord(defines, message_infos[k]) IN
       IF r = <<>>
       THEN /\ k' = k + 1
            /\ UNCHANGED <<spc, ids, raiseLine>>
       ELSE IF r[1].name \in DOMAIN ids
       THEN /\ spc' = "raised"
            /\ raiseLine' = 231
            /\ UNCHANGED <<k, ids>>
       ELSE /\ ids' = Put(ids, r[1].name, r[1])
            /\ k' = k + 1
            /\ UNCHANGED <<spc, raiseLine>>
    /\ UNCHANGED <<files, fi, li, state, linestate, partial_line,
                   log_write_statement, defines, seen_entries>>
    /\ UNCHANGED <<ipc, message_infos, log_write_statements, results>>
    /\ UNCHANGED vvars

\* the loop of line 223 is over
NormalizeDone ==
    /\ spc = "normalize"
    /\ k > Len(message_infos)
    /\ spc' = "normalized"
    /\ UNCHANGED <<files, fi, li, state, linestate, partial_line,
                   log_write_statement, defines, seen_entries>>
    /\ UNCHANGED ivars
    /\ UNCHANGED vvars

\* the most lines of the declaration file, and of the vehicle's Log.cpp
MaxDeclLines == 4
MaxVehicleLines == 3

\* the lines a declaration file is made of
DeclLines ==
    {<<"#define", " ", "LOG_", "STRUCTURE_FROM_", "X", " ", BS, NL>>,
     <<"{", " ", "LOG_", "X", ",", " ", "sizeof", "(", "s", ")", ",", " ",
       Q, "ATT", Q, ",", " ", Q, "f", Q, ",", " ", "A_LABELS", ",", " ",
       Q, Q, ",", " ", Q, "m", Q, " ", "}", ",", " ", BS, NL>>,
     <<" ", "{", " ", "LOG_", "X", ",", " ", "sizeof", "(", "s", ")", ",", " ", BS, NL>>,
     <<Q, "TECS", Q, ",", " ", Q, "f", Q, ",", " ", Q, "x", Q, ",", " ",
       Q, "u", Q, ",", " ", BS, NL>>,
     <<Q, "TECS", Q, ",", " ", Q, "f", Q, ",", " ", Q, "x", Q, ",", " ",
       Q, Q, ",", " ", BS, NL>>,
     <<" ", Q, "m", Q, " ", "}", ",", " ", BS, NL>>,
     <<"#define", " ", "A_LABELS", " ", Q, "x", ",", "y", Q, NL>>,
     <<" ", "//", " ", "x", NL>>}

\* the lines the vehicle's Log.cpp is made of
VehicleLines ==
    {<<"const", " ", "struct", " ", "LogStructure", " ", "v", " ", "{", NL>>,
     <<" ", "{", " ", "LOG_", "X", ",", " ", "sizeof", "(", "s", ")", ",", " ",
       Q, "ATT", Q, ",", " ", Q, "f", Q, ",", " ", Q, "x", ",", "y", Q, ",", " ",
       Q, "u", Q, ",", " ", Q, "m", Q, " ", "}", ",", " ", "//", " ", "x", NL>>,
     <<" ", "{", " ", "LOG_", "X", ",", " ", "sizeof", "(", "s", ")", ",", NL>>,
     <<" ", Q, "TECS", Q, ",", " ", Q, "f", Q, ",", " ", Q, "x", Q, ",", " ",
       Q, "u", Q, ",", " ", Q, "m", Q, ",", " ", "true", " ", "}", ",", NL>>,
     <<"}", ";", NL>>,
     <<"#end", "if", NL>>,
     <<" ", "v", ";", NL>>}

\* the state at line 73, given the files that are read
InitScan(decl, veh) ==
    /\ pc = "idle"
    /\ vehicle = "Copter"
    /\ whitelist = {}
    /\ thing = NoThing
    /\ docco_ids = EmptyMap
    /\ code_ids = EmptyMap
    /\ undocumented = {}
    /\ overdocumented = {}
    /\ missing = <<>>
    /\ ci = 1
    /\ di = 1
    /\ out = <<>>
    /\ retLine = 0
    /\ ipc = "idle"
    /\ message_infos = <<>>
    /\ log_write_statements = <<>>
    /\ k = 1
    /\ ids = EmptyMap
    /\ results = <<>>
    /\ raiseLine = 0
    /\ spc = "find_defines"
    /\ files = <<decl, veh>>
    /\ fi = 1
    /\ li = 1
    /\ state = STATE_OUTSIDE
    /\ linestate = LINESTATE_NONE
    /\ partial_line = <<>>
    /\ log_write_statement = <<>>
    /\ defines = <<>>
    /\ seen_entries = <<>>

\* a declaration file is scanned, with a Log.cpp that holds nothing
InitDecl == \E decl \in SeqsUpTo(DeclLines, MaxDeclLines) : InitScan(decl, <<>>)

NextDecl ==
    \/ FindDefine
    \/ DefinesReturn
    \/ DeclBegin
    \/ DeclLine
    \/ DeclEndOfFile
    \/ VehicleBegin
    \/ VehicleEnd
    \/ NormalizeEntry
    \/ NormalizeDone

SpecDecl == InitDecl /\ [][NextDecl]_vars

\* a Log.cpp is scanned, with a declaration file that holds nothing
InitVehicle == \E veh \in SeqsUpTo(VehicleLines, MaxVehicleLines) : InitScan(<<>>, veh)

NextVehicle ==
    \/ DefinesReturn
    \/ DeclBegin
    \/ DeclEndOfFile
    \/ VehicleBegin
    \/ VehicleLine
    \/ VehicleEnd
    \/ NormalizeEntry
    \/ NormalizeDone

SpecVehicle == InitVehicle /\ [][NextVehicle]_vars

\* ------------------------------------------------------ the call-site scan
\* r"\s*AP::logger\(\)[.]Write(?:Streaming)?\(", line 263
ApLoggerOpenerRe ==
    <<Star(Ws), Lit("AP"), Lit("::"), Lit("logger"), Lit("("), Lit(")"), Lit("."),
      Lit("Write"), Opt({"Streaming"}), Lit("(")>>
\* r"\s*logger[.]Write(?:Streaming)?\(", line 264
LoggerOpenerRe ==
    <<Star(Ws), Lit("logger"), Lit("."), Lit("Write"), Opt({"Streaming"}), Lit("(")>>
\* the condition of lines 263-264
CallOpener(line) ==
    \/ ReMatch(ApLoggerOpenerRe, line) # <<>>
    \/ ReMatch(LoggerOpenerRe, line) # <<>>
\* r".*\);", line 275
TerminatorRe == <<AnyStar, Lit(")"), Lit(";")>>

\* what follows the name of the call in the expressions of lines 289 and 292
CallArgumentsRe ==
    <<Lit("."), Lit("Write"), Opt({"Streaming"}), Lit("("), Star(Ws),
      Lit(Q), Group(1, Plus(WordAtoms)), Lit(Q), Star(Ws), Lit(","), Star(Ws),
      Lit(Q), Group(2, Plus(WordAtoms \cup {","})), Lit(Q), AnyStar, Lit(")"), Lit(";")>>
\* line 289
LoggerCallRe == <<Lit(" "), Lit("logger")>> \o CallArgumentsRe
\* line 292
ApLoggerCallRe ==
    <<Lit(" "), Lit("AP"), Lit("::"), Lit("logger"), Lit("("), Lit(")")>> \o CallArgumentsRe

\* re.sub(r"\s+", " ", x), line 282
CollapseSpace(x) == ReSub(<<Plus(Ws)>>, <<" ">>, x)

\* lines 286-293 for one statement: <<>> when neither expression matches,
\* else the (name, labels) pair
CallPair(defs, statement) ==
    LET text == SubstituteDefines(defs, statement)
        m == ReMatch(LoggerCallRe, text)
        m2 == IF m # <<>> THEN m ELSE ReMatch(ApLoggerCallRe, text)
    IN  IF m2 = <<>> THEN <<>> ELSE <<<<m2[1].groups[1], m2[1].groups[2]>>>>

\* one turn of the loop of line 259
CallLine ==
    /\ spc = "calls"
    /\ li <= Len(files[1])
    /\ LET line == files[1][li] IN
       IF state = STATE_OUTSIDE
       THEN IF CallOpener(line)
            THEN /\ state' = STATE_INSIDE
                 /\ log_write_statement' = StripComment(line)
                 /\ UNCHANGED log_write_statements
            ELSE UNCHANGED <<state, log_write_statement, log_write_statements>>
       ELSE LET joined == JoinLiterals(StripComment(line))
                statement == log_write_statement \o joined
            IN  /\ log_write_statement' = statement
                /\ IF ReMatch(TerminatorRe, joined) # <<>>
                   THEN /\ log_write_statements' = Append(log_write_statements, statement)
                        /\ state' = STATE_OUTSIDE
                   ELSE UNCHANGED <<state, log_write_statements>>
    /\ li' = li + 1
    /\ UNCHANGED <<spc, files, fi, linestate, partial_line, defines, seen_entries>>
    /\ UNCHANGED <<ipc, message_infos, k, ids, results, raiseLine>>
    /\ UNCHANGED vvars

\* lines 279-283, at the end of the file
CallEndOfFile ==
    /\ spc = "calls"
    /\ li > Len(files[1])
    /\ IF state # STATE_OUTSIDE
       THEN /\ spc' = "raised"
            /\ raiseLine' = 280
            /\ UNCHANGED <<log_write_statements, results, k>>
       ELSE /\ spc' = "parse"
            /\ log_write_statements' =
                  [i \in 1..Len(log_write_statements) |-> CollapseSpace(log_write_statements[i])]
            /\ results' = <<>>
            /\ k' = 1
            /\ UNCHANGED raiseLine
    /\ UNCHANGED <<files, fi, li, state, linestate, partial_line,
                   log_write_statement, defines, seen_entries>>
    /\ UNCHANGED <<ipc, message_infos, ids>>
    /\ UNCHANGED vvars

\* one turn of the loop of line 285
ParseCall ==
    /\ spc = "parse"
    /\ k <= Len(log_write_statements)
    /\ LET pair == CallPair(defines, log_write_statements[k]) IN
       IF pair = <<>>
       THEN /\ spc' = "raised"
            /\ raiseLine' = 295
            /\ UNCHANGED <<k, results>>
       ELSE /\ results' = Append(results, pair[1])
            /\ k' = k + 1
            /\ UNCHANGED <<spc, raiseLine>>
    /\ UNCHANGED <<files, fi, li, state, linestate, partial_line,
                   log_write_statement, defines, seen_entries>>
    /\ UNCHANGED <<ipc, message_infos, log_write_statements, ids>>
    /\ UNCHANGED vvars

\* the loop of line 285 is over
ParseCallsDone ==
    /\ spc = "parse"
    /\ k > Len(log_write_statements)
    /\ spc' = "parsed"
    /\ UNCHANGED <<files, fi, li, state, linestate, partial_line,
                   log_write_statement, defines, seen_entries>>
    /\ UNCHANGED ivars
    /\ UNCHANGED vvars

\* the most lines of the implementation file
MaxCallLines == 3

\* the lines an implementation file is made of
CallLines ==
    {<<" ", "logger", ".", "Write", "(", Q, "ATT", Q, ",", " ", Q, "x", ",", "y", Q,
       ",", " ", "1", ")", ";", " ", "//", " ", "x", NL>>,
     <<" ", "logger", ".", "Write", "(", Q, "TECS", Q, ",", " ", Q, "x", ",", Q, NL>>,
     <<" ", " ", Q, "y", Q, ",", " ", "1", ")", ";", NL>>,
     <<" ", "AP", "::", "logger", "(", ")", ".", "Write", "Streaming", "(", NL>>,
     <<" ", " ", Q, "ATT", Q, ",", " ", "A_LABELS", ")", ";", NL>>,
     <<" ", " ", Q, "TECS", Q, ",", " ", Q, "x", ",", Q, " ", Q, "y", Q, ",", " ",
       "1", ")", ";", NL>>,
     <<" ", "v", ";", NL>>}

\* the macro tables the statements are read with
CallDefines == {<<>>, <<[name |-> <<"A_LABELS">>, value |-> <<Q, "x", ",", "y", Q>>]>>}

\* the state at line 258, for one implementation file
InitCall ==
    /\ pc = "idle"
    /\ vehicle = "Copter"
    /\ whitelist = {}
    /\ thing = NoThing
    /\ docco_ids = EmptyMap
    /\ code_ids = EmptyMap
    /\ undocumented = {}
    /\ overdocumented = {}
    /\ missing = <<>>
    /\ ci = 1
    /\ di = 1
    /\ out = <<>>
    /\ retLine = 0
    /\ ipc = "idle"
    /\ message_infos = <<>>
    /\ log_write_statements = <<>>
    /\ k = 1
    /\ ids = EmptyMap
    /\ results = <<>>
    /\ raiseLine = 0
    /\ spc = "calls"
    /\ \E lines \in SeqsUpTo(CallLines, MaxCallLines) : files = <<lines>>
    /\ fi = 1
    /\ li = 1
    /\ state = STATE_OUTSIDE
    /\ linestate = LINESTATE_NONE
    /\ partial_line = <<>>
    /\ log_write_statement = <<>>
    /\ defines \in CallDefines
    /\ seen_entries = <<>>

NextCall == CallLine \/ CallEndOfFile \/ ParseCall \/ ParseCallsDone

SpecCall == InitCall /\ [][NextCall]_vars

\* ------------------------------------------------ the macro substitution
\* the most defines of a macro table
MaxDefines == 2

\* the defines a table is made of: a define whose name ends with the name
\* of another one is among them
SubstDefines ==
    {[name |-> <<"A_LABELS">>, value |-> <<Q, "x", ",", "y", Q>>],
     [name |-> <<"X", "A_LABELS">>, value |-> <<Q, "x", Q>>],
     [name |-> <<"B_FMT">>, value |-> <<Q, "f", Q>>]}

\* the mappings find_format_defines can return: no name twice
DefineTables ==
    {t \in SeqsUpTo(SubstDefines, MaxDefines) :
        \A i, j \in 1..Len(t) : t[i].name = t[j].name => i = j}

\* the raw entries that are substituted into
SubstTexts ==
    {<<Q, "ATT", Q, ",", " ", "B_FMT", ",", " ", "A_LABELS">>,
     <<Q, "ATT", Q, ",", " ", Q, "f", Q, ",", " ", "X", "A_LABELS">>,
     <<Q, "TECS", Q, ",", " ", Q, "f", Q, ",", " ", Q, "x", Q>>}

\* lines 223-225: the text of one raw entry after the loop over the defines
SubstituteEntry ==
    /\ spc = "substitute"
    /\ k <= Len(message_infos)
    /\ seen_entries' = Append(seen_entries, SubstituteDefines(defines, message_infos[k]))
    /\ k' = k + 1
    /\ UNCHANGED <<spc, files, fi, li, state, linestate, partial_line,
                   log_write_statement, defines>>
    /\ UNCHANGED <<ipc, message_infos, log_write_statements, ids, results, raiseLine>>
    /\ UNCHANGED vvars

\* the loop of line 223 is over
SubstituteDone ==
    /\ spc = "substitute"
    /\ k > Len(message_infos)
    /\ spc' = "substituted"
    /\ UNCHANGED <<files, fi, li, state, linestate, partial_line,
                   log_write_statement, defines, seen_entries>>
    /\ UNCHANGED ivars
    /\ UNCHANGED vvars

\* the state at line 223, for a macro table and raw entries
InitSubst ==
    /\ pc = "idle"
    /\ vehicle = "Copter"
    /\ whitelist = {}
    /\ thing = NoThing
    /\ docco_ids = EmptyMap
    /\ code_ids = EmptyMap
    /\ undocumented = {}
    /\ overdocumented = {}
    /\ missing = <<>>
    /\ ci = 1
    /\ di = 1
    /\ out = <<>>
    /\ retLine = 0
    /\ ipc = "idle"
    /\ message_infos \in SeqsUpTo(SubstTexts, MaxInfos)
    /\ log_write_statements = <<>>
    /\ k = 1
    /\ ids = EmptyMap
    /\ results = <<>>
    /\ raiseLine = 0
    /\ spc = "substitute"
    /\ files = <<>>
    /\ fi = 1
    /\ li = 1
    /\ state = STATE_OUTSIDE
    /\ linestate = LINESTATE_NONE
    /\ partial_line = <<>>
    /\ log_write_statement = <<>>
    /\ defines \in DefineTables
    /\ seen_entries = <<>>

NextSubst == SubstituteEntry \/ SubstituteDone

SpecSubst == InitSubst /\ [][NextSubst]_vars

\* ------------------------------------------------------------------ claims
Passed == pc = "returned" /\ retLine = 486

\* all_log_format_ids has returned its records to the validator
Extracted == code_ids # EmptyMap

\* the code-name loop of line 430 has run to its end
LoopCompleted ==
    \/ pc = "codeloop" /\ ci > Len(CodeNames)
    \/ pc \in {"check_over", "docloop"}
    \/ pc = "returned" /\ retLine \in {459, 465, 479, 483, 486}

CodeLabelSet(n) == Range(Split(code_ids[n].labels))
DocLabelSet(n) == Range(docco_ids[n])
InBoth == (DOMAIN code_ids) \cap (DOMAIN docco_ids)
HasLine(kind) == \E i \in 1..Len(out) : out[i].kind = kind
NoAggregateReport ==
    ~HasLine("undocumented") /\ ~HasLine("overdocumented") /\ ~HasLine("missing")

TrueUndocumented ==
    {n \in DOMAIN code_ids : n \notin DOMAIN docco_ids /\ n \notin whitelist}
TrueOverdocumented ==
    {n \in InBoth : n \in whitelist /\ CodeLabelSet(n) \subseteq DocLabelSet(n)}
TrueMissing ==
    {n \in DOMAIN docco_ids : n \notin DOMAIN code_ids /\ n \notin whitelist}

\* C1: a passing verdict implies (i) every non-whitelisted code name is
\* documented, (ii) every non-whitelisted name in both sets has the same set
\* of labels on both sides, (iii) every documented name absent from the code
\* is whitelisted.
C1_PassImpliesContainment ==
    Passed =>
        /\ \A n \in DOMAIN code_ids : n \notin whitelist => n \in DOMAIN docco_ids
        /\ \A n \in InBoth : n \notin whitelist => CodeLabelSet(n) = DocLabelSet(n)
        /\ \A n \in DOMAIN docco_ids : n \notin DOMAIN code_ids => n \in whitelist

\* a passing run with a non-whitelisted name on both sides carrying two
\* labels, and a whitelisted documented name that the code does not have
C1_Witness ==
    /\ Passed
    /\ \E n \in InBoth : n \notin whitelist /\ Cardinality(CodeLabelSet(n)) = 2
    /\ \E n \in DOMAIN docco_ids : n \notin DOMAIN code_ids

\* some non-whitelisted documented code record has an undocumented label
C2_Pre ==
    /\ Extracted
    /\ \E n \in InBoth : n \notin whitelist /\ ~(CodeLabelSet(n) \subseteq DocLabelSet(n))

\* C2: when a non-whitelisted documented code record has a label missing
\* from its documentation record, the run never leaves the code-name loop
\* except by a return from inside it (lines 443, 453): no undocumented,
\* overdocumented or missing report is printed and no documented name is
\* examined.
C2_FailFastInCodeLoop ==
    C2_Pre =>
        /\ pc \in {"codeloop", "returned"}
        /\ pc = "codeloop" => ci <= Len(CodeNames)
        /\ pc = "returned" => retLine \in {443, 453}
        /\ NoAggregateReport
        /\ di = 1
        /\ missing = <<>>

\* the fatal label error is hit after another finding was already collected
C2_Witness ==
    /\ C2_Pre
    /\ pc = "returned"
    /\ retLine = 453
    /\ undocumented # {}

\* C3: once the code-name loop has completed, undocumented is exactly the
\* set of code names that are neither documented nor whitelisted; if it is
\* non-empty the run returns failure at line 459 after a report that lists
\* every one of them.
C3_UndocumentedExact ==
    LoopCompleted =>
        /\ undocumented = TrueUndocumented
        /\ \A n \in undocumented : n \notin whitelist
        /\ (TrueUndocumented # {} /\ pc # "codeloop") =>
              /\ pc = "returned"
              /\ retLine = 459
              /\ out[Len(out)] = Line("undocumented", "", <<>>, Sorted(TrueUndocumented))

\* the run has reported a non-empty undocumented set
C3_Witness ==
    /\ pc = "returned"
    /\ retLine = 459
    /\ TrueUndocumented # {}
    /\ DOMAIN docco_ids # {}

\* C3 (the whitelisted case): a whitelisted code name absent from the
\* documentation has passed through the loop
C3_WitnessWhitelisted ==
    /\ LoopCompleted
    /\ \E n \in DOMAIN code_ids : n \in whitelist /\ n \notin DOMAIN docco_ids

NoRepeatedLabel(n) ==
    LET labels == Split(code_ids[n].labels) IN
    \A i, j \in 1..Len(labels) : i # j => labels[i] # labels[j]

\* nothing is wrong with the input apart from the labels of whitelisted
\* messages that are on both sides
C4_OtherwiseClean ==
    /\ Extracted
    /\ TrueUndocumented = {}
    /\ TrueMissing = {}
    /\ \A n \in DOMAIN code_ids : NoRepeatedLabel(n)
    /\ \A n \in InBoth : n \notin whitelist => CodeLabelSet(n) = DocLabelSet(n)

\* C4 as stated: a label mismatch of a whitelisted message, in either
\* direction, is only a warning: a run whose only findings are such
\* mismatches passes.
C4_MismatchEitherDirectionTolerated ==
    (/\ pc = "returned"
     /\ C4_OtherwiseClean
     /\ \A n \in InBoth : n \in whitelist => CodeLabelSet(n) # DocLabelSet(n))
    => Passed

\* C4 as amended: for a whitelisted message on both sides, a code label
\* missing from the documentation is a warning that removes the name from
\* overdocumented and never ends the run at line 453, and a run whose only
\* findings are such labels passes; a documented label missing from the
\* code record is not tolerated, the run never passes with one.
C4_CodeLabelMismatchTolerated ==
    /\ (/\ pc = "returned"
        /\ C4_OtherwiseClean
        /\ \A n \in InBoth : n \in whitelist =>
              /\ ~(CodeLabelSet(n) \subseteq DocLabelSet(n))
              /\ DocLabelSet(n) \subseteq CodeLabelSet(n))
       => Passed
    /\ (pc = "returned" /\ retLine = 453) => out[Len(out)].name \notin whitelist
    /\ LoopCompleted =>
          \A n \in InBoth :
             (n \in whitelist /\ ~(CodeLabelSet(n) \subseteq DocLabelSet(n))) =>
                /\ n \notin overdocumented
                /\ \A l \in CodeLabelSet(n) \ DocLabelSet(n) :
                      \E i \in 1..Len(out) :
                         out[i] = Line("warning_not_documented", n, l, <<>>)
    /\ (\E n \in InBoth : n \in whitelist /\ ~(DocLabelSet(n) \subseteq CodeLabelSet(n)))
       => ~Passed

\* a passing run that printed the warning for a whitelisted message
C4_Witness ==
    /\ Passed
    /\ HasLine("warning_not_documented")
    /\ \E n \in InBoth : n \in whitelist /\ ~(CodeLabelSet(n) \subseteq DocLabelSet(n))

\* C5: a whitelisted name on both sides with every code label documented
\* keeps the run from passing and from reaching the documentation loop, and
\* is in overdocumented once the code-name loop has completed.
C5_OverdocumentedFails ==
    \A n \in InBoth :
       (Extracted /\ n \in whitelist /\ CodeLabelSet(n) \subseteq DocLabelSet(n)) =>
          /\ ~Passed
          /\ pc # "docloop"
          /\ pc = "returned" => retLine \in {443, 453, 459, 465}
          /\ LoopCompleted => n \in overdocumented

\* the run has failed on the overdocumented report
C5_Witness ==
    /\ pc = "returned"
    /\ retLine = 465
    /\ \E n \in InBoth : n \in whitelist /\ CodeLabelSet(n) \subseteq DocLabelSet(n)
    /\ HasLine("overdocumented")

AggregateLines ==
    {i \in 1..Len(out) : out[i].kind \in {"undocumented", "overdocumented", "missing"}}

C7_MissingNeverPasses ==
    /\ TrueMissing # {} => ~Passed
    /\ (pc = "returned" /\ retLine \in {483, 486}) =>
          /\ Range(missing) = TrueMissing
          /\ retLine = 483 <=> TrueMissing # {}

\* the run got through both loops and failed on a missing name
C7_Witness ==
    /\ pc = "returned"
    /\ retLine = 483
    /\ TrueMissing # {}
    /\ \E n \in InBoth : TRUE

\* C8 as stated: a code record with a repeated label keeps the run from
\* passing, whitelisted or not, documented or not.
C8_RepeatedLabelNeverPasses ==
    Passed => \A n \in DOMAIN code_ids : NoRepeatedLabel(n)

\* C9: the loader, at a message with no field elements: a whitelisted one
\* stays in the documentation set with an empty label list and loading goes
\* on; any other ends the run with failure at line 418, before
\* all_log_format_ids is called.
C9_NoFieldsAtLoad ==
    /\ (thing # NoThing /\ thing.fields = <<>>) =>
          IF thing.name \in whitelist
          THEN /\ pc = "load"
               /\ thing.name \in DOMAIN docco_ids
               /\ docco_ids[thing.name] = <<>>
          ELSE /\ pc = "returned"
               /\ retLine = 418
               /\ ~Extracted
               /\ ~HasLine("parsing_code")
               /\ out[Len(out)] = Line("no_doc_fields", thing.name, <<>>, <<>>)
    /\ \A n \in DOMAIN docco_ids :
          (docco_ids[n] = <<>> /\ n \notin whitelist) =>
             (pc = "returned" /\ retLine = 418 /\ ~Extracted)

\* the loader accepted a whitelisted message with no field elements and then
\* failed on a non-whitelisted one
C9_Witness ==
    /\ pc = "returned"
    /\ retLine = 418
    /\ thing.name \notin whitelist
    /\ \E n \in DOMAIN docco_ids : n \in whitelist /\ docco_ids[n] = <<>>

\* the raw entries that match their grammar and hold the name n
StructProducers(n) ==
    {i \in 1..Len(message_infos) :
        StructRowMatch(message_infos[i]) /\ message_infos[i].name = n}
CallProducers(n) ==
    {j \in 1..Len(log_write_statements) :
        CallMatch(log_write_statements[j]) /\ log_write_statements[j].name = n}
Producers(n) == Cardinality(StructProducers(n)) + Cardinality(CallProducers(n))

\* C10: all_log_format_ids never returns when two grammar-matching raw
\* entries hold the same name (struct/struct, call/call or call/struct); a
\* returned set has, for each of its names, the record of the one raw entry
\* that holds the name, and no matching entry's name is left out.
C10_NoDuplicateNames ==
    /\ (\E n \in Names : Producers(n) >= 2) => ipc # "returned"
    /\ ipc = "returned" =>
          \A n \in Names :
             IF n \in DOMAIN ids
             THEN /\ Producers(n) = 1
                  /\ ids[n].name = n
                  /\ \A i \in StructProducers(n) : ids[n].labels = message_infos[i].labels
                  /\ \A j \in CallProducers(n) : ids[n].labels = log_write_statements[j].labels
             ELSE Producers(n) = 0
    /\ (ipc = "raised" /\ raiseLine = 231) =>
          Cardinality(StructProducers(message_infos[k].name)) >= 2
    /\ (ipc = "raised" /\ raiseLine = 302) => Producers(results[k][1]) >= 2

\* the merge has aborted on a call-site name that a struct-table row holds
C10_Witness ==
    /\ ipc = "raised"
    /\ raiseLine = 302
    /\ Cardinality(StructProducers(results[k][1])) = 1
    /\ Cardinality(CallProducers(results[k][1])) = 1

\* C10 (struct-table against struct-table)
C10_WitnessStructStruct ==
    ipc = "raised" /\ raiseLine = 231

\* C10 (call site against call site)
C10_WitnessCallCall ==
    /\ ipc = "raised"
    /\ raiseLine = 302
    /\ StructProducers(results[k][1]) = {}

\* C10 (a returned set with a record from each source)
C10_WitnessReturned ==
    /\ ipc = "returned"
    /\ \E n \in DOMAIN ids : StructProducers(n) # {}
    /\ \E n \in DOMAIN ids : CallProducers(n) # {}

\* the code records and the documentation records agree, name by name and
\* label by label, and the whitelist plays no part
C11_Pre ==
    /\ Extracted
    /\ ((DOMAIN code_ids) \cup (DOMAIN docco_ids)) \cap whitelist = {}
    /\ DOMAIN code_ids = DOMAIN docco_ids
    /\ \A n \in DOMAIN code_ids : NoRepeatedLabel(n)
    /\ \A n \in InBoth : CodeLabelSet(n) = DocLabelSet(n)

\* C11: with a non-empty code-side set, nothing whitelisted, the same names
\* on both sides, no repeated code label and the same labels in each pair
\* of records, the run never fails: it returns only at line 486, with
\* undocumented, overdocumented and missing empty.
C11_MatchingRecordsPass ==
    C11_Pre =>
        /\ pc # "raised"
        /\ pc = "returned" => Passed
        /\ undocumented = {}
        /\ overdocumented = {}
        /\ missing = <<>>
        /\ NoAggregateReport

\* a passing run over two messages, one of them with two labels
C11_Witness ==
    /\ C11_Pre
    /\ Passed
    /\ Cardinality(DOMAIN code_ids) = 2
    /\ \E n \in InBoth : Cardinality(CodeLabelSet(n)) = 2

\* ---- C14
\* the scanned lines that are recognised defines, with what they define
DefineAt(i) == ReMatch(DefineRe, files[1][i])
RecognisedLines == {i \in 1..Len(files[1]) : DefineAt(i) # <<>>}
DefinedTwice ==
    \E i, j \in RecognisedLines : i < j /\ DefineAt(i)[1].groups[1] = DefineAt(j)[1].groups[1]
DefinesFinished == spc \in {"defines_returned", "raised"}

\* C14: find_format_defines raises the duplicate-definition error exactly when
\* two scanned lines are recognised defines of the same name (whatever their
\* values); otherwise it returns, and the mapping returned holds every
\* recognised define once, with the literal of its line as the value.
C14_DefinesDuplicateOrComplete ==
    DefinesFinished =>
        /\ DefinedTwice <=> (spc = "raised" /\ raiseLine = 47)
        /\ ~DefinedTwice =>
              /\ spc = "defines_returned"
              /\ Len(defines) = Cardinality(RecognisedLines)
              /\ \A i \in RecognisedLines :
                    Cardinality({d \in 1..Len(defines) :
                                    defines[d].name = DefineAt(i)[1].groups[1]}) = 1
              /\ \A i \in RecognisedLines : \E d \in 1..Len(defines) :
                    /\ defines[d].name = DefineAt(i)[1].groups[1]
                    /\ defines[d].value = DefineAt(i)[1].groups[2]

\* two lines defining the same name with the same value: the scan raises
C14_Witness ==
    /\ spc = "raised"
    /\ raiseLine = 47
    /\ \E i, j \in RecognisedLines :
          /\ i < j
          /\ DefineAt(i)[1].groups = DefineAt(j)[1].groups

\* a text with two different defines and an unrecognised line: returned whole
C14_WitnessReturned ==
    /\ spc = "defines_returned"
    /\ Len(defines) = 2
    /\ Cardinality(RecognisedLines) < Len(files[1])
    /\ \E d \in 1..Len(defines) : defines[d].name = <<"X", "A_LABELS">>

\* ---- C13
\* a line without its line end and continuation marker
Unwrap(line) == RStrip(DropBackslash(RStrip(line)))

\* the declaration file is a table marker and one entry written on three
\* lines: an opening line, a continuation line, a closing line
ThreeLineEntry ==
    /\ Len(files[1]) = 4
    /\ DeclMarker(files[1][1])
    /\ ReMatch(RowRe, files[1][2]) = <<>>
    /\ ReMatch(DeclOpenerRe, files[1][2]) # <<>>
    /\ ReMatch(DeclCloserRe, files[1][3]) = <<>>
    /\ DropBackslash(RStrip(files[1][3])) # RStrip(files[1][3])
    /\ ReMatch(DeclCloserRe, files[1][4]) # <<>>

\* the same content written on one line, and the record that line gives
SameOnOneLine == Unwrap(files[1][2]) \o Unwrap(files[1][3]) \o files[1][4]
OneLineRecord ==
    LET row == ReMatch(RowRe, SameOnOneLine) IN
    IF row = <<>> THEN <<>> ELSE StructRecord(defines, row[1].groups[1])

ScanEnded == spc \in {"normalized", "raised"}

\* C13: when the row of a three-line entry matches the record grammar, the
\* run ends normally and the one record extracted is the record of the same
\* content written on one line (name, format, labels, units, multipliers).
C13_ThreeLinesAsOneLine ==
    (ScanEnded /\ ThreeLineEntry /\ OneLineRecord # <<>>) =>
        /\ spc = "normalized"
        /\ ids = [n \in {OneLineRecord[1].name} |-> OneLineRecord[1]]

\* a three-line entry whose record is the one of the one-line form
C13_SameRecordReached ==
    /\ spc = "normalized"
    /\ ThreeLineEntry
    /\ OneLineRecord # <<>>
    /\ ids = [n \in {OneLineRecord[1].name} |-> OneLineRecord[1]]

\* ---- C16
\* C16: in both struct-table scans, a scan that has finished without raising
\* was not within an entry when it finished: no buffered partial entry is
\* dropped by a normal end.
C16_NoNormalEndWithinEntry ==
    spc \in {"decl_done", "vehicle_done", "normalize", "normalized"} =>
        linestate = LINESTATE_NONE

\* the declaration-file scan alone: ending within an entry raises at line 153
C16_DeclEndWithinEntryRaises ==
    /\ spc = "decl_done" => linestate = LINESTATE_NONE
    /\ (spc = "raised" /\ raiseLine = 153) => linestate = LINESTATE_WITHIN

C16_DeclWitness == spc = "raised" /\ raiseLine = 153

\* ---- C17
\* a line of Log.cpp as the loop of line 160 sees it
VehicleText(j) == StripComment(files[2][j])
OpeningLines == {j \in 1..Len(files[2]) : ~IsBlank(VehicleText(j)) /\ VehicleMarker(VehicleText(j))}
OpeningSeen == OpeningLines # {}
FirstOpening == CHOOSE j \in OpeningLines : \A o \in OpeningLines : j <= o
IsTableEnd(j) == ReMatch(TableEndRe, VehicleText(j)) # <<>>
\* the vehicle-file scan is over and nothing was raised by it
VehicleScanEndedNormally ==
    \/ spc \in {"normalize", "normalized"}
    \/ spc = "raised" /\ raiseLine = 231
VehicleScanOver == VehicleScanEndedNormally \/ spc = "raised"
\* the lines before line j that can complete an entry
EntryLinesBefore(j) ==
    {h \in 1..(j - 1) : \/ ReMatch(RowRe, VehicleText(h)) # <<>>
                        \/ ReMatch(VehicleCloserRe, VehicleText(h)) # <<>>}

\* C17: once the table-opening line has been seen, the vehicle-file scan
\* ends normally only at a line after it that starts with "};"; when the end
\* of the file is reached first the run raises at line 221; and every raw
\* entry comes from a line before the closing line.
C17_VehicleScanEndsAtClosingLine ==
    (OpeningSeen /\ VehicleScanOver) =>
        /\ VehicleScanEndedNormally =>
              /\ li \in (FirstOpening + 1)..Len(files[2])
              /\ IsTableEnd(li)
              /\ Len(message_infos) <= Cardinality(EntryLinesBefore(li))
        /\ li > Len(files[2]) => (spc = "raised" /\ raiseLine = 221)

\* a table closed by "};" with a row after it, which is not captured
C17_Witness ==
    /\ spc = "normalized"
    /\ OpeningSeen
    /\ IsTableEnd(li)
    /\ \E j \in (li + 1)..Len(files[2]) : ReMatch(RowRe, VehicleText(j)) # <<>>
    /\ message_infos = <<>>

\* the end of the file reached inside the table
C17_WitnessEndOfFile ==
    /\ spc = "raised"
    /\ raiseLine = 221
    /\ li > Len(files[2])
    /\ Len(message_infos) = 1

\* ---- C20
\* C20: in both struct-table scans the substate is WITHIN_ENTRY only while
\* the state is INSIDE, and a raw entry is appended only by a step taken in
\* state INSIDE.
C20_WithinOnlyInside ==
    /\ [](linestate = LINESTATE_WITHIN => state = STATE_INSIDE)
    /\ [][message_infos' # message_infos => state = STATE_INSIDE]_vars

\* the part of it about appending alone
C20_AppendOnlyInside == [][message_infos' # message_infos => state = STATE_INSIDE]_vars

\* ---- C12
CallsEnded == spc \in {"parsed", "raised"}
\* text without the blanks it starts with
LStrip(t) ==
    LET n == CHOOSE n \in 0..Len(t) :
                /\ \A i \in 1..n : t[i] \in Ws
                /\ n = Len(t) \/ t[n + 1] \notin Ws
    IN  SubSeq(t, n + 1, Len(t))
EndsWithQuote(t) == Len(t) > 0 /\ t[Len(t)] = Q
StartsWithQuote(t) == Len(t) > 0 /\ t[1] = Q

\* the file is one statement on two lines, and the line break falls between
\* two adjacent literals of one argument
SplitStatement ==
    /\ Len(files[1]) = 2
    /\ CallOpener(files[1][1])
    /\ ReMatch(TerminatorRe, StripComment(files[1][1])) = <<>>
    /\ ReMatch(TerminatorRe, StripComment(files[1][2])) # <<>>
    /\ EndsWithQuote(RStrip(StripComment(files[1][1])))
    /\ StartsWithQuote(LStrip(StripComment(files[1][2])))

\* the same statement written unsplit: the two literals as one, on one line
Unsplit ==
    CollapseSpace(RStrip(StripComment(files[1][1])) \o LStrip(StripComment(files[1][2])))
UnsplitPair == CallPair(defines, JoinLiterals(Unsplit))

\* C12: a call statement split over two lines between two adjacent literals
\* of its name or labels argument is read as the (name, labels) pair of the
\* same statement written unsplit.
C12_SplitLiteralAsUnsplit ==
    (CallsEnded /\ SplitStatement /\ UnsplitPair # <<>>) =>
        /\ spc = "parsed"
        /\ results = UnsplitPair

\* adjacent literals on one line of a statement are joined
C12_JoinedOnOneLine ==
    /\ spc = "parsed"
    /\ Len(files[1]) = 2
    /\ Contains(files[1][2], <<Q, " ", Q>>)
    /\ results = <<<<(<<"TECS">>), (<<"x", ",", "y">>)>>>>

\* ---- C15
CallOpeners == {j \in 1..Len(files[1]) : CallOpener(files[1][j])}
Terminates(j) == ReMatch(TerminatorRe, StripComment(files[1][j])) # <<>>
\* every invocation runs from its opening line to the first line with a
\* terminator (which may be the opening line), and none opens inside another
WellFormedCalls ==
    \A i \in CallOpeners :
        \E j \in i..Len(files[1]) :
            /\ Terminates(j)
            /\ \A m \in i..(j - 1) : ~Terminates(m)
            /\ \A m \in (i + 1)..j : m \notin CallOpeners

\* C15: in a file of complete invocations the scan ends normally, with as
\* many raw entries as there are call-opening lines.
C15_OneEntryPerOpeningLine ==
    (CallsEnded /\ WellFormedCalls /\ ~(spc = "raised" /\ raiseLine = 295)) =>
        /\ spc = "parsed"
        /\ Len(log_write_statements) = Cardinality(CallOpeners)

\* an invocation of two lines: one entry
C15_OneEntryReached ==
    /\ spc = "parsed"
    /\ WellFormedCalls
    /\ Cardinality(CallOpeners) = 1
    /\ Len(log_write_statements) = 1

\* ---- C18
\* the raw entries whose text is not of the struct-table grammar, and those
\* whose text is of neither call shape
SkippedStructEntries == {i \in 1..Len(message_infos) : message_infos[i].shape # "row"}
BadCallEntries ==
    {i \in 1..Len(log_write_statements) :
        log_write_statements[i].shape \notin {"logger", "ap_logger"}}

\* C18: a struct-table raw entry that does not match the grammar is passed
\* over: the run never raises at it, and the records held after the first
\* k - 1 entries are those of the matching ones among them.  A call-site raw
\* entry that matches neither call shape makes the run raise at line 295
\* (unless line 231 raised before): the merge is never reached and nothing
\* is returned.
C18_StructSkippedCallFatal ==
    /\ (ipc = "raised" /\ raiseLine = 231) => k \notin SkippedStructEntries
    /\ ipc = "struct" =>
          DOMAIN ids = {message_infos[i].name : i \in (1..(k - 1)) \ SkippedStructEntries}
    /\ BadCallEntries # {} =>
          /\ ipc \notin {"merge", "returned"}
          /\ ipc = "raised" => raiseLine \in {231, 295}

\* a skipped struct-table entry before a matching one, whose record is kept,
\* and then a call-site entry of neither shape: raised at line 295
C18_Witness ==
    /\ ipc = "raised"
    /\ raiseLine = 295
    /\ Len(message_infos) = 2
    /\ 1 \in SkippedStructEntries
    /\ DOMAIN ids = {message_infos[2].name}
    /\ k \in BadCallEntries

\* ---- C19
Reverse(t) == [i \in 1..Len(t) |-> t[Len(t) + 1 - i]]
\* every occurrence of a define name in the text is a whole token
OnlyWholeTokens(defs, text) ==
    \A d \in 1..Len(defs) : \A p \in 1..Len(text) :
        OccursAt(defs[d].name, text, p) => WholeTokenAt(defs[d].name, text, p)

\* C19 as stated: the substituted text is the text with the whole-token
\* occurrences of macro names replaced, whatever the order of the table.
C19_WholeTokensOnly ==
    \A i \in 1..Len(seen_entries) :
        /\ seen_entries[i] = SubstituteDefines_WholeTokens(defines, message_infos[i])
        /\ seen_entries[i] = SubstituteDefines(Reverse(defines), message_infos[i])

\* What the code does instead: a macro name is replaced wherever it occurs in
\* the text, inside a longer identifier too, so no define name is left
\* anywhere in the substituted text; this is the whole-token substitution, in
\* any order of the table, for the texts in which define names occur as
\* whole tokens only.
EveryOccurrenceReplaced ==
    \A i \in 1..Len(seen_entries) :
        /\ \A d \in 1..Len(defines) : \A p \in 1..Len(seen_entries[i]) :
              ~OccursAt(defines[d].name, seen_entries[i], p)
        /\ OnlyWholeTokens(defines, message_infos[i]) =>
              /\ seen_entries[i] = SubstituteDefines_WholeTokens(defines, message_infos[i])
              /\ seen_entries[i] = SubstituteDefines(Reverse(defines), message_infos[i])

\* a define name replaced inside a longer identifier that is a define
\* itself: the text is not the whole-token one, and the table read in the
\* other order gives another text
OrderDependenceReached ==
    \E i \in 1..Len(seen_entries) :
        /\ ~OnlyWholeTokens(defines, message_infos[i])
        /\ Len(defines) = 2
        /\ seen_entries[i] # SubstituteDefines_WholeTokens(defines, message_infos[i])
        /\ seen_entries[i] # SubstituteDefines(Reverse(defines), message_infos[i])

====
